---- MODULE Spec2Model ----
(***************************************************************************)
(* Model of the binary front end of baedeker-core: the byte Cursor, the    *)
(* four LEB128 decoders, the preamble validator, the section scanner and   *)
(* Module::decode.                                                         *)
(*                                                                         *)
(* Bytes are naturals 0..255.  Values wider than 31 bits (u32, u64, i32,   *)
(* i64, usize) are bit vectors: functions from 0..w-1 to {0,1}, bit 0      *)
(* being the least significant; a signed value is its two's-complement     *)
(* bit pattern.  Cursor positions never exceed the length of the buffer    *)
(* and are plain naturals; the usize values they are added to are         *)
(* sequences of 16-bit limbs.                                              *)
(***************************************************************************)
EXTENDS Integers, Sequences, FiniteSets, TLC

VARIABLES
    data,               \* Cursor.data: the input buffer
    pos,                \* Cursor.pos
    build,              \* the target the crate is compiled for
    pc,                 \* position of the running operation
    call_pos,           \* Cursor.pos when the operation was called
    fn,                 \* the operation that is running or has run
    sections,           \* parse_sections: the vector being built
    last_non_custom_id, \* parse_sections: Option<u8>
    input_sections,     \* the section list the buffer was assembled from
    ret,                \* the value returned by the operation
    arg,                \* the argument n of the last Cursor operation
    query               \* the last Module::section call and what it returned

vars == <<data, pos, build, pc, call_pos, fn, sections, last_non_custom_id,
          input_sections, ret, arg, query>>

-----------------------------------------------------------------------------
(* Bounds of the explored inputs.                                          *)

\* largest number of continuation bytes in a generated LEB128 input
MaxCont == 10

\* largest number of bytes in front of a generated LEB128 input
MaxSkip == 1

\* largest number of bytes after the preamble in a generated raw buffer
MaxBody == 5

\* largest number of sections in a buffer assembled from a section list
MaxSections == 3

\* the longest buffer a Cursor is made on
MaxBuf == 3

\* the largest small argument n of Cursor::read_bytes and Cursor::advance,
\* and the largest distance of a large argument from usize::MAX
MaxArg == 3

-----------------------------------------------------------------------------
(* Bytes and bit vectors.                                                  *)

Byte == 0..255

\* bit k of a natural below 2^31
Bit(n, k) == IF k > 30 THEN 0 ELSE (n \div (2 ^ k)) % 2

\* a & b on u8
BitAnd(a, b) ==
    LET f[k \in 0..8] ==
            IF k = 8 THEN 0 ELSE Bit(a, k) * Bit(b, k) * (2 ^ k) + f[k + 1]
    IN  f[0]

\* the w-bit value 0
Zero(w) == [k \in 0..(w - 1) |-> 0]

\* v << shift on a w-bit integer, v a natural below 2^31 and shift < w:
\* bits moved past bit w-1 are dropped
Shl(v, shift, w) ==
    [k \in 0..(w - 1) |-> IF k >= shift THEN Bit(v, k - shift) ELSE 0]

\* !0 << shift on a w-bit integer, shift < w
ShlOnes(shift, w) == [k \in 0..(w - 1) |-> IF k >= shift THEN 1 ELSE 0]

\* x | y on w-bit integers
BitOr(x, y) == [k \in DOMAIN x |-> IF x[k] = 1 \/ y[k] = 1 THEN 1 ELSE 0]

-----------------------------------------------------------------------------
(* Results and errors.                                                     *)

\* DecodeContext
Magic == [tag |-> "Magic"]
Version == [tag |-> "Version"]
SectionHeader == [tag |-> "SectionHeader"]
SectionBody(id) == [tag |-> "SectionBody", id |-> id]
Leb128 == [tag |-> "Leb128"]

\* DecodeErrorKind
UnexpectedEof == [tag |-> "UnexpectedEof"]
InvalidMagic == [tag |-> "InvalidMagic"]
UnsupportedVersion(found) == [tag |-> "UnsupportedVersion", found |-> found]
Leb128TooLong == [tag |-> "Leb128TooLong"]
Leb128Overflow == [tag |-> "Leb128Overflow"]
UnknownSectionId(id) == [tag |-> "UnknownSectionId", id |-> id]
SectionOverflow == [tag |-> "SectionOverflow"]
SectionOutOfOrder(prev, current) ==
    [tag |-> "SectionOutOfOrder", prev |-> prev, current |-> current]
DuplicateSection(id) == [tag |-> "DuplicateSection", id |-> id]

\* Ok(val), with the cursor left at p
Ok(val, p) == [tag |-> "Ok", val |-> val, pos |-> p]

\* Err(DecodeError {offset, context, kind}), with the cursor left at p
Err(offset, context, kind, p) ==
    [tag |-> "Err", offset |-> offset, context |-> context, kind |-> kind,
     pos |-> p]

\* a panic (index out of range, arithmetic overflow with overflow checks on)
Panic(p) == [tag |-> "Panic", pos |-> p]

\* Option<u8>
None == <<>>
Some(x) == <<x>>

\* no operation has returned yet
NoRet == [tag |-> "None"]

\* no Cursor operation with an argument has been called yet
NoArg == <<>>

\* Module::section has not been called yet
NoQuery == [asked |-> FALSE]

IsOk(r) == r.tag = "Ok"
IsErr(r) == r.tag = "Err"
IsErrKind(r, t) == r.tag = "Err" /\ r.kind.tag = t

-----------------------------------------------------------------------------
(* Cursor.                                                                 *)

\* Cursor::is_empty
is_empty(d, p) == p >= Len(d)

\* Cursor::read_byte
read_byte(d, p) ==
    IF p < Len(d)
    THEN Ok(d[p + 1], p + 1)
    ELSE Err(p, Leb128, UnexpectedEof, p)

(* A usize value is a little-endian sequence of 16-bit limbs, two on a    *)
(* 32-bit target and four on a 64-bit target.                              *)

\* the limbs of a + b + carry, followed by the carry out of the last limb
RECURSIVE add_limbs(_, _, _)
add_limbs(a, b, carry) ==
    IF a = <<>> THEN <<carry>>
    ELSE LET t == Head(a) + Head(b) + carry IN
         <<t % 65536>> \o add_limbs(Tail(a), Tail(b), t \div 65536)

\* a + b on usize: the wrapped sum and whether the true sum overflows usize
usize_add(a, b) ==
    LET r == add_limbs(a, b, 0) IN
    [val |-> SubSeq(r, 1, Len(a)), overflow |-> r[Len(r)] = 1]

\* a natural below 2^31 (a position, a length, a literal) as usize, the
\* target having w bits
usize_of(n, w) ==
    [k \in 1..(w \div 16) |->
        IF k = 1 THEN n % 65536 ELSE IF k = 2 THEN n \div 65536 ELSE 0]

\* the 16 bits of x from bit lo on, as a natural
Limb(x, lo) ==
    x[lo] + 2 * x[lo + 1] + 4 * x[lo + 2] + 8 * x[lo + 3]
    + 16 * x[lo + 4] + 32 * x[lo + 5] + 64 * x[lo + 6] + 128 * x[lo + 7]
    + 256 * x[lo + 8] + 512 * x[lo + 9] + 1024 * x[lo + 10]
    + 2048 * x[lo + 11] + 4096 * x[lo + 12] + 8192 * x[lo + 13]
    + 16384 * x[lo + 14] + 32768 * x[lo + 15]

\* `size as usize`, size a u32 and the target having w bits
as_usize(size, w) ==
    [k \in 1..(w \div 16) |->
        IF k = 1 THEN Limb(size, 0) ELSE IF k = 2 THEN Limb(size, 16) ELSE 0]

\* x is below 2^31
IsSmall(x) == x[2] < 32768 /\ \A k \in 3..Len(x) : x[k] = 0

\* the natural a usize value below 2^31 stands for
ToNat(x) == x[1] + 65536 * x[2]

\* x <= n, x a usize value and n a natural below 2^31 (a length)
usize_le(x, n) == IsSmall(x) /\ ToNat(x) <= n

\* read_bytes that refuses to read up to the end of the buffer (`<` for
\* `<=`)
read_bytes_lt(d, p, n, b) ==
    LET end == usize_add(usize_of(p, b.usize_bits), n) IN
    IF end.overflow /\ b.overflow_checks THEN Panic(p)
    ELSE IF usize_le(end.val, Len(d) - 1)
    THEN IF ToNat(end.val) < p THEN Panic(p)
         ELSE Ok(SubSeq(d, p + 1, ToNat(end.val)), ToNat(end.val))
    ELSE Err(p, Leb128, UnexpectedEof, p)

\* Cursor::read_bytes, n a usize value and b the build.  `self.pos + n`
\* panics on overflow when overflow checks are on and wraps otherwise; a
\* wrapped end lies below pos, and `&self.data[self.pos..end]` panics.
read_bytes(d, p, n, b) ==
    LET end == usize_add(usize_of(p, b.usize_bits), n) IN
    IF end.overflow /\ b.overflow_checks THEN Panic(p)
    ELSE IF usize_le(end.val, Len(d))
    THEN IF ToNat(end.val) < p THEN Panic(p)
         ELSE Ok(SubSeq(d, p + 1, ToNat(end.val)), ToNat(end.val))
    ELSE Err(p, Leb128, UnexpectedEof, p)

\* Cursor::advance, n a usize value and b the build.  `self.pos + n` panics
\* on overflow when overflow checks are on and wraps otherwise; `self.pos
\* += n` then wraps to the same value.
advance(d, p, n, b) ==
    LET end == usize_add(usize_of(p, b.usize_bits), n) IN
    IF end.overflow /\ b.overflow_checks THEN Panic(p)
    ELSE IF usize_le(end.val, Len(d))
    THEN Ok(<<>>, ToNat(end.val))
    ELSE Err(p, Leb128, UnexpectedEof, p)

\* Cursor::position
position(d, p) == Ok(p, p)

\* Cursor::remaining: `&self.data[self.pos..]` panics when pos is beyond the
\* end of the buffer
remaining(d, p) ==
    IF p > Len(d) THEN Panic(p) ELSE Ok(SubSeq(d, p + 1, Len(d)), p)

-----------------------------------------------------------------------------
(* LEB128 decoders.  Each loop operator is the body of the `for` loop at   *)
(* iteration i, with the locals of the function as parameters.             *)

\* u32_overflow with the mask 0xE0, which lets bit 4 of the 5th byte through
u32_overflow_mask_e0(i, byte) == i = 4 /\ BitAnd(byte, 224) # 0

\* u32_overflow with the mask 0x70, which leaves the continuation bit out
u32_overflow_mask_70(i, byte) == i = 4 /\ BitAnd(byte, 112) # 0

\* decode_u32: the overflow test, `i == 4 && (byte & 0xF0) != 0`
u32_overflow(i, byte) == i = 4 /\ BitAnd(byte, 240) # 0

\* decode_u64: the overflow test, `i == 9 && (byte & 0xFE) != 0`
u64_overflow(i, byte) == i = 9 /\ BitAnd(byte, 254) # 0

\* decode_i32: the test of the terminal 5th byte, on `byte & 0x70`
i32_overflow(byte) ==
    LET sign_and_unused == BitAnd(byte, 112) IN
    sign_and_unused # 0 /\ sign_and_unused # 112

\* decode_i64: the test of the terminal 10th byte, on `byte & 0x7E`
i64_overflow(byte) ==
    LET sign_and_unused == BitAnd(byte, 126) IN
    sign_and_unused # 0 /\ sign_and_unused # 126

\* leb128_map_err that leaves the offset where the byte read failed
leb128_map_err_keep_offset(e, start) == Err(e.offset, Leb128, e.kind, e.pos)

\* decode_u32, decode_u64, decode_i32, decode_i64: the closure given to
\* map_err on cursor.read_byte(), which sets the context to Leb128 and the
\* offset to start
leb128_map_err(e, start) == Err(start, Leb128, e.kind, e.pos)

RECURSIVE u32_loop(_, _, _, _, _, _)
u32_loop(d, start, p, i, result, shift) ==
    IF i = 5
    THEN Err(start, Leb128, Leb128TooLong, p)
    ELSE
        LET r == read_byte(d, p) IN
        IF ~IsOk(r)
        THEN leb128_map_err(r, start)
        ELSE
            LET byte == r.val
                low_bits == BitAnd(byte, 127)
            IN
            IF u32_overflow(i, byte)
            THEN Err(start, Leb128, Leb128Overflow, r.pos)
            ELSE
                LET result2 == BitOr(result, Shl(low_bits, shift, 32)) IN
                IF BitAnd(byte, 128) = 0
                THEN Ok(result2, r.pos)
                ELSE u32_loop(d, start, r.pos, i + 1, result2, shift + 7)

\* decode_u32
decode_u32(d, p) == u32_loop(d, p, p, 0, Zero(32), 0)

RECURSIVE u64_loop(_, _, _, _, _, _)
u64_loop(d, start, p, i, result, shift) ==
    IF i = 10
    THEN Err(start, Leb128, Leb128TooLong, p)
    ELSE
        LET r == read_byte(d, p) IN
        IF ~IsOk(r)
        THEN leb128_map_err(r, start)
        ELSE
            LET byte == r.val
                low_bits == BitAnd(byte, 127)
            IN
            IF u64_overflow(i, byte)
            THEN Err(start, Leb128, Leb128Overflow, r.pos)
            ELSE
                LET result2 == BitOr(result, Shl(low_bits, shift, 64)) IN
                IF BitAnd(byte, 128) = 0
                THEN Ok(result2, r.pos)
                ELSE u64_loop(d, start, r.pos, i + 1, result2, shift + 7)

\* decode_u64
decode_u64(d, p) == u64_loop(d, p, p, 0, Zero(64), 0)

\* i32_sign_extend without the sign extension
i32_sign_extend_none(result, shift, byte) == result

\* decode_i32: the sign extension of a terminal byte that is not the 5th
i32_sign_extend(result, shift, byte) ==
    IF shift < 32 /\ BitAnd(byte, 64) # 0
    THEN BitOr(result, ShlOnes(shift, 32))
    ELSE result

RECURSIVE i32_loop(_, _, _, _, _, _)
i32_loop(d, start, p, i, result, shift) ==
    IF i = 5
    THEN Err(start, Leb128, Leb128TooLong, p)
    ELSE
        LET r == read_byte(d, p) IN
        IF ~IsOk(r)
        THEN leb128_map_err(r, start)
        ELSE
            LET byte == r.val
                low_bits == BitAnd(byte, 127)
                result2 == BitOr(result, Shl(low_bits, shift, 32))
                shift2 == shift + 7
            IN
            IF BitAnd(byte, 128) = 0
            THEN
                IF i = 4
                THEN
                    IF i32_overflow(byte)
                    THEN Err(start, Leb128, Leb128Overflow, r.pos)
                    ELSE Ok(result2, r.pos)
                ELSE Ok(i32_sign_extend(result2, shift2, byte), r.pos)
            ELSE i32_loop(d, start, r.pos, i + 1, result2, shift2)

\* decode_i32
decode_i32(d, p) == i32_loop(d, p, p, 0, Zero(32), 0)

\* decode_i64: the sign extension of a terminal byte that is not the 10th
i64_sign_extend(result, shift, byte) ==
    IF shift < 64 /\ BitAnd(byte, 64) # 0
    THEN BitOr(result, ShlOnes(shift, 64))
    ELSE result

RECURSIVE i64_loop(_, _, _, _, _, _)
i64_loop(d, start, p, i, result, shift) ==
    IF i = 10
    THEN Err(start, Leb128, Leb128TooLong, p)
    ELSE
        LET r == read_byte(d, p) IN
        IF ~IsOk(r)
        THEN leb128_map_err(r, start)
        ELSE
            LET byte == r.val
                low_bits == BitAnd(byte, 127)
                result2 == BitOr(result, Shl(low_bits, shift, 64))
                shift2 == shift + 7
            IN
            IF BitAnd(byte, 128) = 0
            THEN
                IF i = 9
                THEN
                    IF i64_overflow(byte)
                    THEN Err(start, Leb128, Leb128Overflow, r.pos)
                    ELSE Ok(result2, r.pos)
                ELSE Ok(i64_sign_extend(result2, shift2, byte), r.pos)
            ELSE i64_loop(d, start, r.pos, i + 1, result2, shift2)

\* decode_i64
decode_i64(d, p) == i64_loop(d, p, p, 0, Zero(64), 0)

-----------------------------------------------------------------------------
(* Preamble and sections.                                                  *)

\* SectionId::Custom as u8
Custom == 0

\* SectionId::from_byte: the known ids are the bytes 0..12
from_byte(byte) == IF byte \in 0..12 THEN Some(byte) ELSE None

WASM_MAGIC == <<0, 97, 115, 109>>

WASM_VERSION == <<1, 0, 0, 0>>

\* from_le_bytes reading the bytes most significant first
from_be_bytes(v) == [k \in 0..31 |-> Bit(v[4 - (k \div 8)], k % 8)]

\* u32::from_le_bytes
from_le_bytes(v) == [k \in 0..31 |-> Bit(v[(k \div 8) + 1], k % 8)]

\* parse_preamble that reports a failure of the version at the offset where
\* the version ends
parse_preamble_version_end(d, p, b) ==
    LET magic == read_bytes(d, p, usize_of(4, b.usize_bits), b) IN
    IF magic.tag = "Panic" THEN magic
    ELSE IF ~IsOk(magic) THEN Err(0, Magic, UnexpectedEof, magic.pos)
    ELSE IF magic.val # WASM_MAGIC THEN Err(0, Magic, InvalidMagic, magic.pos)
    ELSE
        LET version == read_bytes(d, magic.pos, usize_of(4, b.usize_bits), b)
        IN
        IF version.tag = "Panic" THEN version
        ELSE IF ~IsOk(version)
        THEN Err(magic.pos + 4, Version, UnexpectedEof, version.pos)
        ELSE IF version.val # WASM_VERSION
        THEN Err(magic.pos + 4, Version,
                 UnsupportedVersion(from_le_bytes(version.val)), version.pos)
        ELSE Ok(<<>>, version.pos)

\* parse_preamble, on a cursor at p
parse_preamble(d, p, b) ==
    LET magic == read_bytes(d, p, usize_of(4, b.usize_bits), b) IN
    IF magic.tag = "Panic" THEN magic
    ELSE IF ~IsOk(magic) THEN Err(0, Magic, UnexpectedEof, magic.pos)
    ELSE IF magic.val # WASM_MAGIC THEN Err(0, Magic, InvalidMagic, magic.pos)
    ELSE
        LET version == read_bytes(d, magic.pos, usize_of(4, b.usize_bits), b)
        IN
        IF version.tag = "Panic" THEN version
        ELSE IF ~IsOk(version)
        THEN Err(4, Version, UnexpectedEof, version.pos)
        ELSE IF version.val # WASM_VERSION
        THEN Err(4, Version, UnsupportedVersion(from_le_bytes(version.val)),
                 version.pos)
        ELSE Ok(<<>>, version.pos)

\* header_overflow that rejects a section ending exactly at the end of the
\* buffer (`>=` for `>`)
header_overflow_at_end(d, content_offset, size, b) ==
    LET sum == usize_add(usize_of(content_offset, b.usize_bits),
                         as_usize(size, b.usize_bits))
    IN  IF sum.overflow /\ b.overflow_checks THEN "panic"
        ELSE IF usize_le(sum.val, Len(d) - 1)
        THEN "fits"
        ELSE "overflow"

\* header_overflow without the test: every declared length goes on to the
\* body read
header_overflow_none(d, content_offset, size, b) ==
    LET sum == usize_add(usize_of(content_offset, b.usize_bits),
                         as_usize(size, b.usize_bits))
    IN  IF sum.overflow /\ b.overflow_checks THEN "panic" ELSE "fits"

\* parse_sections: the header bounds test,
\* `content_offset + size as usize > position + remaining().len()`;
\* "panic" when the sum overflows with overflow checks on
header_overflow(d, content_offset, size, b) ==
    LET sum == usize_add(usize_of(content_offset, b.usize_bits),
                         as_usize(size, b.usize_bits))
    IN  IF sum.overflow /\ b.overflow_checks THEN "panic"
        ELSE IF usize_le(sum.val, content_offset + (Len(d) - content_offset))
        THEN "fits"
        ELSE "overflow"

\* ordering_error that lets an equal id through (`<` for `<=`)
ordering_error_lt(id_byte, last) ==
    IF last # None /\ id_byte < last[1]
    THEN Some(SectionOutOfOrder(last[1], id_byte))
    ELSE None

\* ordering_error that lets Code and Data follow DataCount
ordering_error_after_datacount(id_byte, last) ==
    IF last # None /\ id_byte <= last[1]
          /\ ~(last[1] = 12 /\ id_byte \in {10, 11})
    THEN IF id_byte = last[1]
         THEN Some(DuplicateSection(id_byte))
         ELSE Some(SectionOutOfOrder(last[1], id_byte))
    ELSE None

\* parse_sections: the ordering check on a section that is not Custom; the
\* kind of the error, or None
ordering_error(id_byte, last) ==
    IF last # None /\ id_byte <= last[1]
    THEN IF id_byte = last[1]
         THEN Some(DuplicateSection(id_byte))
         ELSE Some(SectionOutOfOrder(last[1], id_byte))
    ELSE None

\* ordering_applies without the exemption of Custom
ordering_applies_all(id) == TRUE

\* parse_sections: whether the ordering check applies to the section
ordering_applies(id) == id # Custom

\* next_last_non_custom_id that tracks Custom sections too
next_last_any_id(id, id_byte, last) == Some(id_byte)

\* parse_sections: the tracked id after a section has passed the check
next_last_non_custom_id(id, id_byte, last) ==
    IF id # Custom THEN Some(id_byte) ELSE last

\* RawSection whose offset is that of the section header
RawSection_id_offset(id, offset, bytes) ==
    [id |-> id, offset |-> offset - 1, data |-> bytes]

\* RawSection
RawSection(id, offset, bytes) == [id |-> id, offset |-> offset, data |-> bytes]

\* size_map_err that leaves the context of the codec
size_map_err_keep_context(e) == e

\* size_map_err that moves the offset back to the id byte
size_map_err_id_offset(e) == Err(e.offset - 1, SectionHeader, e.kind, e.pos)

\* parse_sections: the closure given to map_err on leb128::decode_u32, which
\* sets the context to SectionHeader and nothing else
size_map_err(e) == Err(e.offset, SectionHeader, e.kind, e.pos)

\* one iteration of the loop of parse_sections, entered with the cursor at
\* p (not empty), the vector secs and the tracked id last: the error or
\* panic it returns with, or the locals it goes round the loop with
section_iter(d, p, secs, last, b) ==
    LET id_offset == p
        rb == read_byte(d, p)
    IN
    IF ~IsOk(rb) THEN Err(id_offset, SectionHeader, UnexpectedEof, rb.pos)
    ELSE
    LET id_byte == rb.val
        id == from_byte(id_byte)
    IN
    IF id = None
    THEN Err(id_offset, SectionHeader, UnknownSectionId(id_byte), rb.pos)
    ELSE
    LET size == decode_u32(d, rb.pos) IN
    IF ~IsOk(size) THEN size_map_err(size)
    ELSE
    LET content_offset == size.pos
        bounds == header_overflow(d, content_offset, size.val, b)
    IN
    IF bounds = "panic" THEN Panic(content_offset)
    ELSE IF bounds = "overflow"
    THEN Err(id_offset, SectionHeader, SectionOverflow, content_offset)
    ELSE
    LET order == IF ordering_applies(id[1])
                 THEN ordering_error(id_byte, last)
                 ELSE None
    IN
    IF order # None
    THEN Err(id_offset, SectionHeader, order[1], content_offset)
    ELSE
    LET body == read_bytes(d, content_offset, as_usize(size.val, b.usize_bits),
                           b)
    IN
    IF body.tag = "Panic" THEN body
    ELSE IF ~IsOk(body)
    THEN Err(content_offset, SectionBody(id_byte), SectionOverflow, body.pos)
    ELSE [tag |-> "Continue",
          pos |-> body.pos,
          sections |-> Append(secs, RawSection(id[1], content_offset,
                                               body.val)),
          last |-> next_last_non_custom_id(id[1], id_byte, last)]

\* Module::section that returns the last section with the id
RECURSIVE section_last(_, _)
section_last(secs, id) ==
    IF secs = <<>> THEN None
    ELSE IF secs[Len(secs)].id = id THEN Some(secs[Len(secs)])
    ELSE section_last(SubSeq(secs, 1, Len(secs) - 1), id)

\* Module::section: `self.sections.iter().find(|s| s.id == id)`
RECURSIVE section(_, _)
section(secs, id) ==
    IF secs = <<>> THEN None
    ELSE IF Head(secs).id = id THEN Some(Head(secs))
    ELSE section(Tail(secs), id)

-----------------------------------------------------------------------------
(* The targets the crate is built for: the width of usize and whether      *)
(* arithmetic overflow panics (debug) or wraps (release).                  *)

Builds ==
    { [usize_bits |-> 64, overflow_checks |-> FALSE],
      [usize_bits |-> 32, overflow_checks |-> TRUE],
      [usize_bits |-> 32, overflow_checks |-> FALSE] }

-----------------------------------------------------------------------------
(* Specification Spec: Module::decode on one buffer.                       *)

\* n copies of byte b
Rep(b, n) == [k \in 1..n |-> b]

\* all sequences over S of length at most n
SeqsUpTo(S, n) == UNION { [1..k -> S] : k \in 0..n }

\* the first n elements of s, all of s when it is shorter
Take(s, n) == SubSeq(s, 1, IF n < Len(s) THEN n ELSE Len(s))

\* the 8 bytes of a valid preamble
Preamble == WASM_MAGIC \o WASM_VERSION

\* buffers that exercise the preamble: every prefix of a magic, right or
\* wrong, followed by a version, right or wrong
MagicInputs == { WASM_MAGIC, <<0, 0, 0, 0>>, <<1, 97, 115, 109>>,
                 <<0, 97, 115, 110>> }

VersionInputs == { WASM_VERSION, <<2, 0, 0, 0>>, <<1, 0, 0, 1>>,
                   <<0, 1, 0, 0>>, <<0, 0, 0, 128>>,
                   <<255, 255, 255, 255>> }

PreambleInputs ==
    { Take(m \o v, n) : m \in MagicInputs, v \in VersionInputs, n \in 0..8 }

\* bytes of the raw buffers: the ids Custom, Type and Import, which are
\* also lengths and contents, and a continuation byte, which is also an
\* unknown id
RawBytes == { 0, 1, 2, 128 }

\* a valid preamble followed by any bytes
RawInputs == { Preamble \o s : s \in SeqsUpTo(RawBytes, MaxBody) }

\* buffers of the tests and of the scenarios of the format, and sections
\* whose declared length is near u32::MAX
NamedInputs ==
    { Preamble \o <<1, 4, 1, 96, 0, 0, 3, 2, 1, 0>>,
      Preamble \o <<1, 255, 1>>,
      Preamble \o <<1, 1, 255, 3, 1, 238, 7, 1, 221>>,
      Preamble \o <<3, 1, 255, 1, 1, 238>>,
      Preamble \o <<10, 0, 11, 0, 12, 0>>,
      Preamble \o <<12, 0, 10, 0>>,
      Preamble \o <<13, 0>>,
      Preamble \o <<1, 128, 128, 128, 128, 128, 0>>,
      Preamble \o <<1, 255, 255, 255, 255, 15>>,
      Preamble \o <<1, 255, 255, 255, 255, 15, 0>>,
      Preamble \o <<1, 246, 255, 255, 255, 15>>,
      Preamble \o <<1, 0, 1, 255, 255, 255, 255, 15>> }

\* the sections buffers are assembled from
SectionIds == { 0, 1, 3, 12 }

SectionContents == { <<>>, <<170, 187>> }

SectionLists ==
    SeqsUpTo([id : SectionIds, data : SectionContents], MaxSections)

\* a length below 128 as LEB128: in one byte, or padded to two
encode_len(n, padded) == IF padded THEN <<128 + n, 0>> ELSE <<n>>

\* the bytes of a list of sections: id, length, content
RECURSIVE Serialize(_, _)
Serialize(secs, padded) ==
    IF secs = <<>> THEN <<>>
    ELSE <<Head(secs).id>> \o encode_len(Len(Head(secs).data), padded)
            \o Head(secs).data \o Serialize(Tail(secs), padded)

\* the buffer was not assembled from a section list
Unframed == [framed |-> FALSE, secs |-> <<>>]

Framed(secs) == [framed |-> TRUE, secs |-> secs]

Init ==
    /\ \/ /\ data \in PreambleInputs \cup RawInputs \cup NamedInputs
          /\ input_sections = Unframed
       \/ \E secs \in SectionLists, padded \in BOOLEAN :
             /\ data = Preamble \o Serialize(secs, padded)
             /\ input_sections = Framed(secs)
    /\ build \in Builds
    /\ pos = 0
    /\ pc = "preamble"
    /\ call_pos = 0
    /\ fn = "decode"
    /\ sections = <<>>
    /\ last_non_custom_id = None
    /\ ret = NoRet
    /\ arg = NoArg
    /\ query = NoQuery

\* Module::decode: Cursor::new and parse_preamble
DecodePreamble ==
    /\ pc = "preamble"
    /\ LET r == parse_preamble(data, pos, build) IN
       /\ pos' = r.pos
       /\ IF IsOk(r)
          THEN pc' = "sections" /\ ret' = ret
          ELSE pc' = "done" /\ ret' = r
    /\ UNCHANGED <<data, build, call_pos, fn, sections, last_non_custom_id,
                   input_sections, arg, query>>

\* parse_sections: one iteration of `while !cursor.is_empty()`
ParseSection ==
    /\ pc = "sections"
    /\ ~is_empty(data, pos)
    /\ LET r == section_iter(data, pos, sections, last_non_custom_id, build)
       IN
       /\ pos' = r.pos
       /\ IF r.tag = "Continue"
          THEN /\ sections' = r.sections
               /\ last_non_custom_id' = r.last
               /\ pc' = "sections"
               /\ ret' = ret
          ELSE /\ pc' = "done"
               /\ ret' = r
               /\ UNCHANGED <<sections, last_non_custom_id>>
    /\ UNCHANGED <<data, build, call_pos, fn, input_sections, arg, query>>

\* parse_sections: the loop ends, Module::decode returns Ok(Module)
DecodeReturn ==
    /\ pc = "sections"
    /\ is_empty(data, pos)
    /\ pc' = "done"
    /\ ret' = Ok(sections, pos)
    /\ UNCHANGED <<data, pos, build, call_pos, fn, sections,
                   last_non_custom_id, input_sections, arg, query>>

\* the ids Module::section is called with: Custom, Type, Import,
\* DataCount
QueryIds == { 0, 1, 2, 12 }

\* Module::section on the Module that Module::decode returned
CallSection ==
    /\ pc = "done"
    /\ fn = "decode"
    /\ IsOk(ret)
    /\ \E id \in QueryIds :
          query' = [asked |-> TRUE, id |-> id, out |-> section(ret.val, id)]
    /\ UNCHANGED <<data, pos, build, pc, call_pos, fn, sections,
                   last_non_custom_id, input_sections, ret, arg>>

Next == DecodePreamble \/ ParseSection \/ DecodeReturn \/ CallSection

Spec == Init /\ [][Next]_vars

-----------------------------------------------------------------------------
(* Specification SpecLeb: one call of one LEB128 decoder on a cursor.      *)

\* continuation bytes: a run of 0x80 and a run of 0xFF, in either order
ContPrefixes ==
    { Rep(128, a) \o Rep(255, b) :
        a \in 0..MaxCont, b \in 0..MaxCont } \cup
    { Rep(255, a) \o Rep(128, b) :
        a \in 0..MaxCont, b \in 0..MaxCont }

\* terminal bytes tried after every prefix: each pattern of the sign bit
\* (bit 6) and of the bits around the width boundaries
TermBytes ==
    { 0, 1, 2, 3, 7, 8, 15, 16, 31, 38, 62, 63,
      64, 65, 71, 72, 79, 112, 113, 119, 120, 124, 126, 127 }

\* a continuation prefix of at most MaxCont bytes, then nothing or a
\* terminal byte: every terminal byte where it is the last allowed byte of
\* a decoder (the 5th or the 10th), the bytes of TermBytes elsewhere; and
\* the encoding of 624485 of tests::u32_624485
LebInputs ==
    { c \o t : c \in { x \in ContPrefixes : Len(x) <= MaxCont },
               t \in { <<>> } \cup { <<b>> : b \in TermBytes } }
    \cup { c \o <<b>> : c \in { x \in ContPrefixes : Len(x) \in {4, 9} },
                        b \in 0..127 }
    \cup { <<229, 142, 38>> }

InitLeb ==
    /\ \E inp \in LebInputs, skip \in 0..MaxSkip :
          /\ data = Rep(255, skip) \o inp
          /\ pos = skip
    /\ build = [usize_bits |-> 64, overflow_checks |-> FALSE]
    /\ pc = "ready"
    /\ call_pos = 0
    /\ fn = "none"
    /\ sections = <<>>
    /\ last_non_custom_id = None
    /\ input_sections = Unframed
    /\ ret = NoRet
    /\ arg = NoArg
    /\ query = NoQuery

\* a call of decoder f, which returns r: the cursor is left where the
\* decoder left it
Return(f, r) ==
    /\ pc' = "done"
    /\ fn' = f
    /\ call_pos' = pos
    /\ pos' = r.pos
    /\ ret' = r
    /\ UNCHANGED <<data, build, sections, last_non_custom_id, input_sections,
                   arg, query>>

CallDecodeU32 == pc = "ready" /\ Return("decode_u32", decode_u32(data, pos))

CallDecodeU64 == pc = "ready" /\ Return("decode_u64", decode_u64(data, pos))

CallDecodeI32 == pc = "ready" /\ Return("decode_i32", decode_i32(data, pos))

CallDecodeI64 == pc = "ready" /\ Return("decode_i64", decode_i64(data, pos))

NextLeb == CallDecodeU32 \/ CallDecodeU64 \/ CallDecodeI32 \/ CallDecodeI64

SpecLeb == InitLeb /\ [][NextLeb]_vars

-----------------------------------------------------------------------------
(* Specification SpecCursor: any sequence of operations on one Cursor.     *)

\* the builds of a Cursor: usize of 32 or 64 bits, overflow checks on or
\* off
CursorBuilds == [usize_bits : {32, 64}, overflow_checks : BOOLEAN]

\* the buffers a Cursor is made on
CursorBuffers == SeqsUpTo({7, 200}, MaxBuf)

\* usize::MAX - k, the target having w bits and k being below 2^16
usize_max_minus(k, w) ==
    [j \in 1..(w \div 16) |-> IF j = 1 THEN 65535 - k ELSE 65535]

\* the arguments n of read_bytes and advance: the small ones, and the ones
\* at the top of the range of usize
CursorArgs(w) ==
    { usize_of(k, w) : k \in 0..MaxArg } \cup
    { usize_max_minus(k, w) : k \in 0..MaxArg }

InitCursor ==
    /\ data \in CursorBuffers
    /\ build \in CursorBuilds
    /\ pos = 0
    /\ pc = "cursor"
    /\ call_pos = 0
    /\ fn = "new"
    /\ sections = <<>>
    /\ last_non_custom_id = None
    /\ input_sections = Unframed
    /\ ret = NoRet
    /\ arg = NoArg
    /\ query = NoQuery

\* a call of operation f with argument n, which returns r: the cursor is
\* left where the operation left it, and a panic ends the use of the cursor
CursorCall(f, n, r) ==
    /\ fn' = f
    /\ arg' = n
    /\ call_pos' = pos
    /\ pos' = r.pos
    /\ ret' = r
    /\ pc' = IF r.tag = "Panic" THEN "panicked" ELSE "cursor"
    /\ UNCHANGED <<data, build, sections, last_non_custom_id, input_sections,
                   query>>

CallReadByte ==
    /\ pc = "cursor"
    /\ CursorCall("read_byte", NoArg, read_byte(data, pos))

CallReadBytes ==
    /\ pc = "cursor"
    /\ \E n \in CursorArgs(build.usize_bits) :
          CursorCall("read_bytes", n, read_bytes(data, pos, n, build))

CallAdvance ==
    /\ pc = "cursor"
    /\ \E n \in CursorArgs(build.usize_bits) :
          CursorCall("advance", n, advance(data, pos, n, build))

CallPosition ==
    /\ pc = "cursor"
    /\ CursorCall("position", NoArg, position(data, pos))

CallRemaining ==
    /\ pc = "cursor"
    /\ CursorCall("remaining", NoArg, remaining(data, pos))

CallIsEmpty ==
    /\ pc = "cursor"
    /\ CursorCall("is_empty", NoArg, Ok(is_empty(data, pos), pos))

NextCursor ==
    \/ CallReadByte
    \/ CallReadBytes
    \/ CallAdvance
    \/ CallPosition
    \/ CallRemaining
    \/ CallIsEmpty

SpecCursor == InitCursor /\ [][NextCursor]_vars

-----------------------------------------------------------------------------
(* LEB128 as the format defines it, for stating the properties of the      *)
(* decoders: an encoding is a run of bytes with bit 7 set followed by one  *)
(* byte with bit 7 clear; its groups of 7 bits, least significant first,   *)
(* are the value, in two's complement when signed.                         *)

Decoders == { "decode_u32", "decode_u64", "decode_i32", "decode_i64" }

WidthOf(f) == IF f \in { "decode_u32", "decode_i32" } THEN 32 ELSE 64

SignedOf(f) == f \in { "decode_i32", "decode_i64" }

\* ceil(width / 7)
MaxBytesOf(f) == (WidthOf(f) + 6) \div 7

\* the number of bytes of the encoding that starts at position s, 0 when
\* there is no terminal byte among the first max bytes from s
EncLen(d, s, max) ==
    LET T == { n \in 1..max :
                 /\ s + n <= Len(d)
                 /\ d[s + n] < 128
                 /\ \A m \in 1..(n - 1) : d[s + m] >= 128 }
    IN  IF T = {} THEN 0 ELSE CHOOSE n \in T : TRUE

\* bit j of the value encoded from position s
EncBit(d, s, j) == (d[s + (j \div 7) + 1] \div (2 ^ (j % 7))) % 2

\* the value of the n-byte encoding at s fits the target of decoder f
InRange(d, s, n, f) ==
    IF SignedOf(f)
    THEN \A j \in (WidthOf(f) - 1)..(7 * n - 1) :
            EncBit(d, s, j) = EncBit(d, s, 7 * n - 1)
    ELSE \A j \in WidthOf(f)..(7 * n - 1) : EncBit(d, s, j) = 0

\* bit k of the value of the n-byte encoding at s, in the target of f
ValueBit(d, s, n, f, k) ==
    IF k < 7 * n THEN EncBit(d, s, k)
    ELSE IF SignedOf(f) THEN EncBit(d, s, 7 * n - 1)
    ELSE 0

\* a decoder has returned from a call at call_pos
LebDone == pc = "done" /\ fn \in Decoders

\* the length of the encoding the finished decoder was called on
LebLen == EncLen(data, call_pos, MaxBytesOf(fn))

\* the terminal byte, when it is the last byte the decoder allows
LastAllowed == data[call_pos + MaxBytesOf(fn)]

-----------------------------------------------------------------------------
(* Properties of the LEB128 decoders, under SpecLeb.                       *)

\* C2: in decode_i32 and decode_i64, when the terminal byte is the last
\* allowed byte (the 5th, the 10th), the sign bit position and the unused
\* bits above it (bits 3..6 for i32, bits 0..6 for i64) are all 0 or all 1,
\* or else the decoder fails with Leb128Overflow: no encoding whose value is
\* outside the target width is accepted.
C2_SignedOverflowRejected ==
    (LebDone /\ SignedOf(fn) /\ LebLen = MaxBytesOf(fn)) =>
        LET bits == IF fn = "decode_i32"
                    THEN (LastAllowed \div 8) % 16
                    ELSE LastAllowed % 128
            ones == IF fn = "decode_i32" THEN 15 ELSE 127
        IN  /\ (bits # 0 /\ bits # ones) => IsErrKind(ret, "Leb128Overflow")
            /\ IsOk(ret) => InRange(data, call_pos, LebLen, fn)

\* C3: on a valid encoding (terminal byte within the maximum byte count)
\* of a value in the target range, each decoder returns exactly that value,
\* sign-extended when signed, and leaves the cursor at the start position
\* plus the number of bytes of the encoding.
C3_DecodesValidEncodings ==
    (LebDone /\ LebLen > 0 /\ InRange(data, call_pos, LebLen, fn)) =>
        /\ IsOk(ret)
        /\ \A k \in 0..(WidthOf(fn) - 1) :
              ret.val[k] = ValueBit(data, call_pos, LebLen, fn, k)
        /\ pos = call_pos + LebLen

\* C3 happens: decode_u32 returned u32::MAX from the 5 bytes after a
\* skipped byte
C3_Witness ==
    /\ LebDone /\ fn = "decode_u32" /\ IsOk(ret)
    /\ call_pos = 1 /\ pos = 6
    /\ \A k \in 0..31 : ret.val[k] = 1

\* C4: every decoder fails with Leb128TooLong when none of the first 5
\* bytes (32-bit) or 10 bytes (64-bit) is a terminal byte.
C4_TooLong ==
    (/\ LebDone
     /\ call_pos + MaxBytesOf(fn) <= Len(data)
     /\ \A m \in 1..MaxBytesOf(fn) : data[call_pos + m] >= 128)
        => IsErrKind(ret, "Leb128TooLong")

\* C5: in decode_u32 and decode_u64, when the terminal byte is the last
\* allowed byte, the decoder fails with Leb128Overflow if one of the unused
\* bits (4..6 for u32, 1..6 for u64) is set and succeeds if none is.
C5_UnsignedOverflow ==
    (LebDone /\ ~SignedOf(fn) /\ LebLen = MaxBytesOf(fn)) =>
        LET unused == IF fn = "decode_u32"
                      THEN (LastAllowed \div 16) % 8
                      ELSE (LastAllowed \div 2) % 64
        IN  /\ unused # 0 => IsErrKind(ret, "Leb128Overflow")
            /\ unused = 0 => IsOk(ret)

\* C5 happens: decode_u32 rejected FF FF FF FF 1F of
\* tests::u32_overflow_fifth_byte
C5_Witness ==
    /\ LebDone /\ fn = "decode_u32" /\ call_pos = 0
    /\ data = <<255, 255, 255, 255, 31>>
    /\ IsErrKind(ret, "Leb128Overflow")

-----------------------------------------------------------------------------
(* Properties of Module::decode, under Spec.                               *)

\* Module::decode has returned
ModuleDone == pc = "done" /\ fn = "decode"

\* the ids of a sequence of sections
Ids(secs) == [i \in 1..Len(secs) |-> secs[i].id]

\* the contents of a sequence of sections
Contents(secs) == [i \in 1..Len(secs) |-> secs[i].data]

\* the ids other than Custom are strictly increasing along secs
Increasing(secs) ==
    \A i, j \in 1..Len(secs) :
        (i < j /\ secs[i].id # 0 /\ secs[j].id # 0) => secs[i].id < secs[j].id

\* the id of the last section of secs that is not Custom
LastNonCustom(secs) ==
    LET I == { i \in 1..Len(secs) : secs[i].id # 0 } IN
    IF I = {} THEN None
    ELSE Some(secs[CHOOSE i \in I : \A j \in I : j <= i].id)

\* C1: the sections of a Module returned by Module::decode that are not
\* Custom have strictly increasing ids, in sequence order, wherever the
\* Custom sections are.
C1_NonCustomIdsIncrease == (ModuleDone /\ IsOk(ret)) => Increasing(ret.val)

\* C1 happens: a Module with Type, Custom and DataCount, in this order
C1_Witness ==
    ModuleDone /\ IsOk(ret) /\ Len(ret.val) = 3 /\ Ids(ret.val) = <<1, 0, 12>>

\* C6 as stated: Module::decode fails with UnexpectedEof on every buffer
\* shorter than 8 bytes.
C6_ShortBufferEof ==
    (ModuleDone /\ Len(data) < 8) => IsErrKind(ret, "UnexpectedEof")

\* C6, amended: on a buffer shorter than 8 bytes Module::decode fails, with
\* InvalidMagic when the buffer has 4 bytes or more and its first 4 are not
\* the magic, and with UnexpectedEof otherwise.
C6_ShortBufferFails ==
    (ModuleDone /\ Len(data) < 8) =>
        IF Len(data) >= 4 /\ SubSeq(data, 1, 4) # <<0, 97, 115, 109>>
        THEN IsErrKind(ret, "InvalidMagic")
        ELSE IsErrKind(ret, "UnexpectedEof")

\* C6 happens: a buffer of 7 bytes that starts with the magic was refused
\* with UnexpectedEof
C6_Witness ==
    /\ ModuleDone /\ Len(data) = 7 /\ SubSeq(data, 1, 4) = <<0, 97, 115, 109>>
    /\ IsErrKind(ret, "UnexpectedEof")

\* C7: parse_preamble, on a cursor at 0, decides in this order: fewer than
\* 4 bytes, UnexpectedEof at 0 in context Magic; first 4 bytes not
\* 00 61 73 6D, InvalidMagic at 0; fewer than 8 bytes, UnexpectedEof at 4
\* in context Version; bytes 4..8 not 01 00 00 00, UnsupportedVersion at 4
\* with found their little-endian value; otherwise success with the cursor
\* at 8.
C7_PreambleOrder ==
    [][ pc = "preamble" =>
          IF Len(data) < 4
          THEN /\ pc' = "done" /\ IsErrKind(ret', "UnexpectedEof")
               /\ ret'.offset = 0 /\ ret'.context.tag = "Magic"
          ELSE IF SubSeq(data, 1, 4) # <<0, 97, 115, 109>>
          THEN /\ pc' = "done" /\ IsErrKind(ret', "InvalidMagic")
               /\ ret'.offset = 0
          ELSE IF Len(data) < 8
          THEN /\ pc' = "done" /\ IsErrKind(ret', "UnexpectedEof")
               /\ ret'.offset = 4 /\ ret'.context.tag = "Version"
          ELSE IF SubSeq(data, 5, 8) # <<1, 0, 0, 0>>
          THEN /\ pc' = "done" /\ IsErrKind(ret', "UnsupportedVersion")
               /\ ret'.offset = 4
               /\ Limb(ret'.kind.found, 0) = data[5] + 256 * data[6]
               /\ Limb(ret'.kind.found, 16) = data[7] + 256 * data[8]
          ELSE pc' = "sections" /\ pos' = 8 /\ ret' = NoRet
      ]_vars

\* C7 happens: the version bytes 00 00 00 80 were refused with found = 2^31
C7_Witness ==
    /\ ModuleDone /\ data = <<0, 97, 115, 109, 0, 0, 0, 128>>
    /\ IsErrKind(ret, "UnsupportedVersion")
    /\ ret.kind.found[31] = 1 /\ \A k \in 0..30 : ret.kind.found[k] = 0

\* the length field at position s: its number of bytes (0 when it is no
\* valid u32 encoding) and, when it is below 2^28, the length it declares
LenBytes(d, s) ==
    LET n == EncLen(d, s, 5) IN
    IF n > 0 /\ InRange(d, s, n, "decode_u32") THEN n ELSE 0

RECURSIVE Declared(_, _, _)
Declared(d, s, n) ==
    IF n = 0 THEN 0 ELSE (d[s + 1] % 128) + 128 * Declared(d, s + 1, n - 1)

\* a section starts at p whose id is known, whose length field is valid and
\* whose content lies within the buffer
WellFramedAt(d, p) ==
    /\ p < Len(d) /\ d[p + 1] \in 0..12
    /\ LET n == LenBytes(d, p + 1) IN
       /\ n > 0
       /\ n = 5 => d[p + 5 + 1] = 0
       /\ p + 1 + n + Declared(d, p + 1, n) <= Len(d)

\* C8: in parse_sections, a section that is not Custom and whose id equals
\* the id of the last accepted section that is not Custom fails with
\* DuplicateSection{id}; one whose id is smaller fails with
\* SectionOutOfOrder{prev, current}; a Custom section never fails the check
\* and never changes the tracked id, so the comparison skips the Custom
\* sections in between.
C8_OrderingCheck ==
    [][ (pc = "sections" /\ WellFramedAt(data, pos)) =>
          LET id == data[pos + 1]
              prev == LastNonCustom(sections)
          IN
          /\ (id # 0 /\ prev # None /\ id = prev[1]) =>
                /\ pc' = "done" /\ IsErr(ret')
                /\ ret'.kind = [tag |-> "DuplicateSection", id |-> id]
          /\ (id # 0 /\ prev # None /\ id < prev[1]) =>
                /\ pc' = "done" /\ IsErr(ret')
                /\ ret'.kind = [tag |-> "SectionOutOfOrder",
                                prev |-> prev[1], current |-> id]
          /\ id = 0 =>
                /\ pc' = "sections"
                /\ last_non_custom_id' = last_non_custom_id
      ]_vars

\* C8 happens: Type, Custom, Type was refused as a duplicate of Type
C8_Witness ==
    /\ ModuleDone /\ Ids(sections) = <<1, 0>>
    /\ IsErr(ret) /\ ret.kind = [tag |-> "DuplicateSection", id |-> 1]

\* C9: a buffer made of a valid preamble and well-framed sections whose ids
\* other than Custom are strictly increasing, with Custom sections anywhere,
\* decodes successfully to the sections in file order; the preamble alone
\* decodes to the empty sequence.
C9_WellFramedDecodes ==
    (ModuleDone /\ input_sections.framed /\ Increasing(input_sections.secs))
        => /\ IsOk(ret)
           /\ Ids(ret.val) = Ids(input_sections.secs)
           /\ Contents(ret.val) = Contents(input_sections.secs)

\* C9 happens: Custom, Type, Custom with contents, the lengths padded to
\* two bytes, was decoded
C9_Witness ==
    /\ ModuleDone /\ IsOk(ret) /\ input_sections.framed
    /\ Ids(ret.val) = <<0, 1, 0>>
    /\ Contents(ret.val) = <<<<170, 187>>, <<>>, <<170, 187>>>>
    /\ Len(data) = 8 + 13

\* the buffer of the scenario of C10
C10_Input ==
    <<0, 97, 115, 109, 1, 0, 0, 0, 1, 4, 1, 96, 0, 0, 3, 2, 1, 0>>

\* C10 as stated: the buffer decodes to a Type section with content
\* 60 00 00, then a Function section with content 00.
C10_ScenarioAsStated ==
    (ModuleDone /\ data = C10_Input) =>
        /\ IsOk(ret)
        /\ Ids(ret.val) = <<1, 3>>
        /\ Contents(ret.val) = <<<<96, 0, 0>>, <<0>>>>

\* C10, amended: the buffer decodes to exactly two sections, a Type section
\* with the 4 bytes of content 01 60 00 00, then a Function section with
\* the 2 bytes of content 01 00.
C10_Scenario ==
    (ModuleDone /\ data = C10_Input) =>
        /\ IsOk(ret)
        /\ Ids(ret.val) = <<1, 3>>
        /\ Contents(ret.val) = <<<<1, 96, 0, 0>>, <<1, 0>>>>

\* C10 happens: Module::decode returned a Module for the buffer
C10_Witness == ModuleDone /\ data = C10_Input /\ IsOk(ret)

-----------------------------------------------------------------------------
(* The sections of a Module and the failures of a section header, under    *)
(* Spec.                                                                   *)

\* the position of the header of section i of secs in a buffer whose
\* sections follow the preamble back to back
HeaderOf(secs, i) ==
    IF i = 1 THEN Len(Preamble)
    ELSE secs[i - 1].offset + Len(secs[i - 1].data)

\* the position of the header of the section after those of secs
NextHeader(secs) == HeaderOf(secs, Len(secs) + 1)

\* C11: for every section of a successfully decoded Module, offset is the
\* position in the buffer immediately after the length field of the section,
\* data has exactly the declared length, and data equals the bytes of the
\* buffer from offset to offset + declared length.
C11_SectionView ==
    (ModuleDone /\ IsOk(ret)) =>
        \A i \in 1..Len(ret.val) :
            LET sec == ret.val[i]
                h == HeaderOf(ret.val, i)
                n == LenBytes(data, h + 1)
            IN
            /\ n > 0
            /\ sec.id = data[h + 1]
            /\ sec.offset = h + 1 + n
            /\ Len(sec.data) = Declared(data, h + 1, n)
            /\ sec.offset + Len(sec.data) <= Len(data)
            /\ sec.data = SubSeq(data, sec.offset + 1,
                                 sec.offset + Len(sec.data))

\* C11 happens: a Module whose second section has a length field of two
\* bytes and a content of two bytes
C11_Witness ==
    /\ ModuleDone /\ IsOk(ret) /\ Len(ret.val) >= 2
    /\ ret.val[2].offset = ret.val[1].offset + Len(ret.val[1].data) + 3
    /\ ret.val[2].data = <<170, 187>>

\* a section header starts at p with a known id
KnownIdAt(d, p) == p < Len(d) /\ d[p + 1] \in 0..12

\* the length field that starts at s stops at the end of the buffer before
\* its terminal byte and before its 5th byte
TruncatedLength(d, s) ==
    /\ Len(d) - s < 5
    /\ \A k \in (s + 1)..Len(d) : d[k] >= 128

\* C12: when the codec fails while decoding the length field of a section,
\* parse_sections returns an error whose context is SectionHeader and whose
\* offset and kind are those the codec produced, the offset being the start
\* of the length field (the offset of the section header + 1); a header with
\* an id byte and a truncated length fails with UnexpectedEof.
C12_LengthFieldFailure ==
    [][ (pc = "sections" /\ KnownIdAt(data, pos)) =>
          LET e == decode_u32(data, pos + 1) IN
          /\ IsErr(e) =>
                /\ pc' = "done" /\ IsErr(ret')
                /\ ret'.context = [tag |-> "SectionHeader"]
                /\ ret'.offset = e.offset
                /\ ret'.offset = pos + 1
                /\ ret'.kind = e.kind
          /\ TruncatedLength(data, pos + 1) =>
                /\ pc' = "done"
                /\ IsErrKind(ret', "UnexpectedEof")
                /\ ret'.context = [tag |-> "SectionHeader"]
      ]_vars

\* C12 happens: after an accepted section, a header whose length field is
\* one continuation byte at the end of the buffer
C12_Witness ==
    /\ ModuleDone /\ Len(sections) = 1
    /\ KnownIdAt(data, NextHeader(sections))
    /\ TruncatedLength(data, NextHeader(sections) + 1)
    /\ Len(data) = NextHeader(sections) + 2
    /\ IsErrKind(ret, "UnexpectedEof")
    /\ ret.offset = NextHeader(sections) + 1

\* Module::decode has stopped at a section header whose id is known and
\* whose length field is no valid encoding of a u32
LengthFieldFails ==
    /\ ModuleDone
    /\ Take(data, Len(Preamble)) = Preamble
    /\ KnownIdAt(data, NextHeader(sections))
    /\ LenBytes(data, NextHeader(sections) + 1) = 0

\* C13 as stated: a LEB128 failure while reading a section length is
\* reported by Module::decode at the offset of the id byte of the section,
\* with the kind the codec gave it.
C13_OffsetOfIdByte ==
    LengthFieldFails =>
        /\ IsErr(ret)
        /\ ret.offset = NextHeader(sections)
        /\ ret.kind = decode_u32(data, NextHeader(sections) + 1).kind

\* C13, amended: a LEB128 failure while reading a section length is reported
\* by Module::decode with the context SectionHeader, at the offset where the
\* length field starts (the offset of the id byte of the section + 1), with
\* the kind the codec gave it.
C13_OffsetOfLengthField ==
    LengthFieldFails =>
        /\ IsErr(ret)
        /\ ret.context = [tag |-> "SectionHeader"]
        /\ ret.offset = NextHeader(sections) + 1
        /\ ret.kind = decode_u32(data, NextHeader(sections) + 1).kind

\* C13 happens: the length field of the first section has a 5th byte with
\* bits beyond bit 31
C13_Witness ==
    /\ LengthFieldFails /\ sections = <<>>
    /\ Len(data) >= Len(Preamble) + 6
    /\ IsErrKind(ret, "Leb128Overflow")
    /\ ret.offset = Len(Preamble) + 1

\* C14: in parse_sections, a section whose content offset plus declared
\* length exceeds the end of the buffer fails with SectionOverflow at the
\* offset of the id byte; a section whose declared length fits exactly to
\* the end of the buffer is accepted: it raises no SectionOverflow and,
\* unless the ordering check rejects it, it is appended and the cursor is at
\* the end of the buffer.
C14_SectionOverflow ==
    [][ (pc = "sections" /\ KnownIdAt(data, pos)
            /\ LenBytes(data, pos + 1) > 0) =>
          LET id == data[pos + 1]
              n == LenBytes(data, pos + 1)
              content_offset == pos + 1 + n
              huge == n = 5 /\ data[pos + 6] # 0
              exceeds == huge \/ content_offset + Declared(data, pos + 1, n)
                                    > Len(data)
              exact == ~huge /\ content_offset + Declared(data, pos + 1, n)
                                    = Len(data)
              prev == LastNonCustom(sections)
              ordered == id = 0 \/ prev = None \/ id > prev[1]
          IN
          /\ exceeds =>
                /\ pc' = "done"
                /\ IsErrKind(ret', "SectionOverflow")
                /\ ret'.offset = pos
          /\ exact =>
                /\ ~IsErrKind(ret', "SectionOverflow")
                /\ ret'.tag # "Panic"
                /\ ordered =>
                      /\ pc' = "sections"
                      /\ Len(sections') = Len(sections) + 1
                      /\ pos' = Len(data)
      ]_vars

-----------------------------------------------------------------------------
(* Properties of Cursor, under SpecCursor.                                 *)

\* an operation on the Cursor has returned
CursorDone == pc = "cursor" /\ fn # "new"

\* the last operation asked for more bytes than remained
PastEnd ==
    \/ /\ fn \in { "read_bytes", "advance" }
       /\ ~(IsSmall(arg) /\ ToNat(arg) <= Len(data) - call_pos)
    \/ fn = "read_byte" /\ call_pos >= Len(data)

\* C15: after any sequence of Cursor operations, 0 <= position <= len;
\* position never decreases; a successful read_byte advances it by exactly
\* 1, a successful read_bytes(n) or advance(n) by exactly n; is_empty is
\* true exactly when position = len.
C15_CursorPosition ==
    CursorDone =>
        /\ 0 <= pos /\ pos <= Len(data)
        /\ pos >= call_pos
        /\ (fn = "read_byte" /\ IsOk(ret)) => pos = call_pos + 1
        /\ (fn \in { "read_bytes", "advance" } /\ IsOk(ret)) =>
              IsSmall(arg) /\ pos = call_pos + ToNat(arg)
        /\ fn = "is_empty" => ret.val = (pos = Len(data))

\* C16: for every n of usize, read_bytes(n) and advance(n) with fewer than n
\* bytes remaining, and read_byte with no byte remaining, fail with
\* UnexpectedEof at the current position and leave the position unchanged.
C16_EofLeavesPosition ==
    ((pc \in { "cursor", "panicked" }) /\ fn # "new" /\ PastEnd) =>
        /\ IsErrKind(ret, "UnexpectedEof")
        /\ ret.offset = call_pos
        /\ pos = call_pos

-----------------------------------------------------------------------------
(* The failures of the LEB128 decoders, under SpecLeb.                     *)

\* C17: every failure returned by decode_u32, decode_u64, decode_i32 or
\* decode_i64 (UnexpectedEof from a byte read inside the loop,
\* Leb128Overflow, Leb128TooLong) has context Leb128 and its offset is the
\* cursor position at which the encoding started, not the position of the
\* byte that failed.
C17_FailureAtStart ==
    (LebDone /\ ~IsOk(ret)) =>
        /\ IsErr(ret)
        /\ ret.kind.tag \in { "UnexpectedEof", "Leb128Overflow",
                               "Leb128TooLong" }
        /\ ret.context = [tag |-> "Leb128"]
        /\ ret.offset = call_pos

\* C17 happens: an encoding that starts at position 1 and runs out of bytes
\* at position 4
C17_Witness ==
    /\ LebDone /\ IsErrKind(ret, "UnexpectedEof")
    /\ call_pos = 1 /\ Len(data) = 4 /\ pos = 4
    /\ ret.offset = 1

-----------------------------------------------------------------------------
(* Panics, DataCount and Module::section, under Spec.                      *)

\* C18: Module::decode returns a Module or a DecodeError for every buffer
\* and never panics, on 32-bit as on 64-bit targets.
C18_NeverPanics == ModuleDone => (IsOk(ret) \/ IsErr(ret))

C20_SectionLookup ==
    [][ (ModuleDone /\ IsOk(ret) /\ query' # query) =>
          LET I == { i \in 1..Len(ret.val) : ret.val[i].id = query'.id } IN
          /\ query'.asked
          /\ ret' = ret
          /\ sections' = sections
          /\ (query'.out = None) <=> (I = {})
          /\ I # {} =>
                query'.out =
                    Some(ret.val[CHOOSE i \in I : \A j \in I : i <= j])
      ]_vars

\* C20 happens: section(Custom) on a Module with Type and two Custom
\* sections returns the first Custom section
C20_Witness ==
    /\ ModuleDone /\ IsOk(ret) /\ Ids(ret.val) = <<1, 0, 0>>
    /\ query.asked /\ query.id = 0
    /\ query.out = Some(ret.val[2])

-----------------------------------------------------------------------------
(* The order of the checks of parse_sections and its termination, under    *)
(* Spec.                                                                   *)

\* the section whose length field of n bytes starts at s declares a length
\* that ends beyond the buffer
Exceeds(d, s, n) ==
    \/ n = 5 /\ d[s + 5] # 0
    \/ s + n + Declared(d, s, n) > Len(d)

\* C21: for each section, parse_sections applies its checks in a fixed order
\* and returns the error of the first check that fails: (1) an unknown id
\* byte gives UnknownSectionId{id} at the header offset, also when no length
\* byte follows; (2) a length field that does not decode fails next; (3) a
\* declared length beyond the buffer gives SectionOverflow, also when the id
\* repeats an earlier one; (4) a duplicate or out-of-order id fails last.
C21_CheckOrder ==
    [][ (pc = "sections" /\ pos < Len(data)) =>
          LET id == data[pos + 1]
              n == LenBytes(data, pos + 1)
              prev == LastNonCustom(sections)
          IN
          IF id \notin 0..12
          THEN /\ pc' = "done" /\ IsErr(ret')
               /\ ret'.kind = [tag |-> "UnknownSectionId", id |-> id]
               /\ ret'.offset = pos
          ELSE IF n = 0
          THEN /\ pc' = "done" /\ IsErr(ret')
               /\ ret'.kind.tag \in { "UnexpectedEof", "Leb128Overflow",
                                      "Leb128TooLong" }
          ELSE IF Exceeds(data, pos + 1, n)
          THEN /\ pc' = "done" /\ IsErrKind(ret', "SectionOverflow")
          ELSE IF id # 0 /\ prev # None /\ id <= prev[1]
          THEN /\ pc' = "done" /\ IsErr(ret')
               /\ ret'.kind.tag \in { "DuplicateSection",
                                      "SectionOutOfOrder" }
          ELSE pc' = "sections"
      ]_vars

-----------------------------------------------------------------------------
(* Five continuation bytes, under SpecLeb.                                 *)

\* the n bytes from position s on are in the buffer and have the
\* continuation flag set
ContinuationRun(d, s, n) ==
    s + n <= Len(d) /\ \A k \in 1..n : d[s + k] >= 128

-----------------------------------------------------------------------------
(* Termination of parse_sections and the errors of Module::decode, under   *)
(* Spec.                                                                   *)

\* C23: parse_sections terminates on every finite buffer: each iteration of
\* its loop either returns an error or advances the cursor by at least 2
\* bytes, within the buffer; the loop is entered only while unread bytes
\* remain; and it returns successfully only with the cursor at the end of
\* the buffer.
C23_LoopProgress ==
    [][ pc = "sections" =>
          /\ pos < Len(data) =>
                \/ pc' = "done" /\ IsErr(ret')
                \/ /\ pc' = "sections"
                   /\ pos' >= pos + 2
                   /\ pos' <= Len(data)
          /\ pos >= Len(data) =>
                /\ pc' = "done" /\ IsOk(ret')
                /\ pos' = Len(data)
                /\ ret'.val = sections
      ]_vars

\* C24: every DecodeError returned by Module::decode on a buffer of length
\* L has an offset between 0 and L inclusive, also on the preamble paths
\* that report the offsets 0 and 4 and on the length-field path that
\* reports the header offset + 1.
C24_OffsetWithinBuffer ==
    (ModuleDone /\ IsErr(ret)) => (0 <= ret.offset /\ ret.offset <= Len(data))

\* C24 happens: the buffer ends after the id byte of the first section, and
\* the error is at the offset L
C24_Witness ==
    /\ ModuleDone /\ IsErrKind(ret, "UnexpectedEof")
    /\ Len(data) = Len(Preamble) + 1
    /\ ret.offset = Len(data)

\* C25: every DecodeError returned by Module::decode has context Magic,
\* Version or SectionHeader: the context Leb128 of the Cursor is always
\* overwritten, and the failure of the body slice (SectionOverflow at the
\* content offset, with context SectionBody{id}) is unreachable, so every
\* SectionOverflow carries the offset of the section header.
C25_ErrorContexts ==
    (ModuleDone /\ IsErr(ret)) =>
        /\ ret.context.tag \in { "Magic", "Version", "SectionHeader" }
        /\ IsErrKind(ret, "SectionOverflow") =>
              /\ ret.context = [tag |-> "SectionHeader"]
              /\ ret.offset = NextHeader(sections)

\* C25 happens: after an accepted section, a section whose declared length
\* exceeds the buffer
C25_Witness ==
    /\ ModuleDone /\ Len(sections) = 1
    /\ IsErrKind(ret, "SectionOverflow")
    /\ ret.context = [tag |-> "SectionHeader"]
    /\ ret.offset = NextHeader(sections)

====
